---- MODULE Spec2Model ----
(***************************************************************************)
(* Model of the Cometa input portal: the credential registry (users.csv),  *)
(* the login session (st.session_state["auth"]) and the submission store   *)
(* (data/submissions, data/raw_uploads).  The repository holds three       *)
(* variants of the application; `variant` selects which one runs:          *)
(*   "Main" : src/Main.py            (bcrypt hashes, JSON + CSV artifacts) *)
(*   "main" : src/main.py            (sha256 hashes, JSON artifact only)   *)
(*   "ui"   : src/app.py, src/auth.py, src/ui/login.py (login/logout only) *)
(* Strings are sequences of one-character strings, so that strip(), len()  *)
(* and the regular-expression substitutions are computed, not assumed.     *)
(***************************************************************************)
EXTENDS Integers, Sequences, FiniteSets, TLC

VARIABLES
    variant,      \* which variant of the application is running
    usersFile,    \* users.csv: [exists, rows], rows as written by to_csv
    auth,         \* st.session_state: <<>> or <<[username, role, company]>>
    stError,      \* the st.error message shown by the last script run ("" if none)
    call,         \* the last handler that ran and the username/password typed into it
    now,          \* the UTC clock, in seconds
    fs,           \* the files under data/: a set of [path, content]
    written,      \* the log of the store calls: time, arguments, files written (history)
    pathIn,       \* inputs of the last build_period_path call
    pathOut,      \* its result
    run           \* concurrent sessions: each one's script run in progress

vars == <<variant, usersFile, auth, stError, call, now, fs, written, pathIn, pathOut, run>>

(***************************************************************************)
(* Bounds of the model.                                                    *)
(***************************************************************************)
MaxUsers == 3      \* rows users.csv may grow to
MaxClock == 2      \* the clock runs over 0..MaxClock seconds
MaxLen == 3        \* length of the company strings fed to the sanitizer
MaxWrites == 2     \* store calls per behaviour
ClockStart == 58   \* the second the clock starts at

(***************************************************************************)
(* Strings.                                                                *)
(***************************************************************************)
Empty == <<>>
ADMIN == <<"a", "d", "m", "i", "n">>
ALL == <<"A", "L", "L">>
CLIENT == <<"c", "l", "i", "e", "n", "t">>
Whitespace == {" "}

RECURSIVE LStrip(_)
LStrip(s) ==
    IF s = Empty THEN s
    ELSE IF Head(s) \in Whitespace THEN LStrip(Tail(s)) ELSE s

RECURSIVE RStrip(_)
RStrip(s) ==
    IF s = Empty THEN s
    ELSE IF s[Len(s)] \in Whitespace THEN RStrip(SubSeq(s, 1, Len(s) - 1)) ELSE s

\* str.strip()
Strip(s) == RStrip(LStrip(s))

(***************************************************************************)
(* Password hashing.  bcrypt (Main.py) salts the hash with a fresh random  *)
(* salt and checkpw raises on a string that is no bcrypt hash, which       *)
(* _verify_password turns into False; sha256 (main.py, auth.py) is         *)
(* unsalted and verification recomputes and compares the digest.  Both     *)
(* digests are taken to be collision-free on the passwords of the model.   *)
(* bcrypt.gensalt() returns a salt no earlier hash used: the salt of a     *)
(* hash is the index of the row it is stored in, which is unique in the    *)
(* file, so equal passwords of two records never give equal hashes.        *)
(***************************************************************************)
MinPasswordLen == 8

_hash_password(v, plain, salt) ==
    IF v = "Main" THEN <<"bcrypt", salt, plain>> ELSE <<"sha256", plain>>

IsBcrypt(hashed) == Len(hashed) = 3 /\ hashed[1] = "bcrypt"

VerifyAcceptsAnyOnEmptyHash(v, plain, hashed) ==
    hashed = Empty \/
    IF v = "Main"
    THEN IsBcrypt(hashed) /\ hashed[3] = plain
    ELSE _hash_password(v, plain, 0) = hashed

_verify_password(v, plain, hashed) ==
    IF v = "Main"
    THEN IsBcrypt(hashed) /\ hashed[3] = plain
    ELSE _hash_password(v, plain, 0) = hashed

(***************************************************************************)
(* users.csv.  to_csv writes each cell as it is; read_csv turns the cells  *)
(* whose text is one of pandas' NA markers into NaN, which load_users      *)
(* replaces by "".                                                         *)
(***************************************************************************)
NaValues == {Empty, <<"N", "A">>}

ReadCsvCell(s) == IF s \in NaValues THEN Empty ELSE s

NoFile == [exists |-> FALSE, rows |-> <<>>]

save_users(df) == [exists |-> TRUE, rows |-> df]

\* the DataFrame load_users returns
load_users(f) ==
    IF ~f.exists THEN <<>>
    ELSE [i \in 1..Len(f.rows) |->
            [company |-> ReadCsvCell(f.rows[i].company),
             username |-> ReadCsvCell(f.rows[i].username),
             password_hash |-> f.rows[i].password_hash,
             role |-> ReadCsvCell(f.rows[i].role)]]

\* users.csv after load_users: a missing file has been created, with no rows
FileAfterLoad(f) == IF f.exists THEN f ELSE save_users(<<>>)

AdminRecord == [company |-> ALL, username |-> ADMIN, password_hash |-> Empty, role |-> ADMIN]

IsAdminRow(r) == r.username = ADMIN /\ r.role = ADMIN

\* df[(df["username"] == "admin") & (df["role"] == "admin")]: the indices of its rows
AdminRows(df) == {i \in 1..Len(df) : IsAdminRow(df[i])}

BootstrapAlways(f) == save_users(Append(load_users(f), AdminRecord))

\* users.csv after bootstrap_admin / ensure_admin_exists / ensure_admin
bootstrap_admin(f) ==
    LET df == load_users(f)
    IN  IF AdminRows(df) = {}
        THEN save_users(Append(df, AdminRecord))
        ELSE FileAfterLoad(f)

Min(S) == CHOOSE x \in S : \A y \in S : x <= y

\* df[df["username"] == username].head(1): the index of the first match, 0 if none
FirstRow(df, username) ==
    LET hits == {i \in 1..Len(df) : df[i].username = username}
    IN  IF hits = {} THEN 0 ELSE Min(hits)

\* (df["username"] == username).any()
UsernameExists(df, username) == \E i \in 1..Len(df) : df[i].username = username

\* the admin row exists and its password_hash is "": the first-time form is shown
AdminPending(df) ==
    AdminRows(df) # {} /\ df[Min(AdminRows(df))].password_hash = Empty

(***************************************************************************)
(* Storage paths.  re.sub(r"[^a-zA-Z0-9_-]+", "_", text) replaces each     *)
(* maximal run of characters outside the class by one "_".  A path is the  *)
(* sequence of its segments; joining an empty segment adds nothing         *)
(* (Path("a") / "" is Path("a")).                                          *)
(***************************************************************************)
Letters ==
    {"a", "b", "c", "d", "e", "f", "g", "h", "i", "j", "k", "l", "m",
     "n", "o", "p", "q", "r", "s", "t", "u", "v", "w", "x", "y", "z",
     "A", "B", "C", "D", "E", "F", "G", "H", "I", "J", "K", "L", "M",
     "N", "O", "P", "Q", "R", "S", "T", "U", "V", "W", "X", "Y", "Z"}
Digits == {"0", "1", "2", "3", "4", "5", "6", "7", "8", "9"}
CompanyChars == Letters \cup Digits \cup {"_", "-"}
FileChars == CompanyChars \cup {"."}

RECURSIVE DropRun(_, _)
DropRun(allowed, s) ==
    IF s = Empty \/ Head(s) \in allowed THEN s ELSE DropRun(allowed, Tail(s))

\* re.sub(r"[^<allowed>]+", "_", s)
RECURSIVE ReSub(_, _)
ReSub(allowed, s) ==
    IF s = Empty THEN Empty
    ELSE IF Head(s) \in allowed THEN <<Head(s)>> \o ReSub(allowed, Tail(s))
    ELSE <<"_">> \o ReSub(allowed, DropRun(allowed, Tail(s)))

PathJoin(base, segment) == IF segment = Empty THEN base ELSE Append(base, segment)

CompanyDirNoStrip(company) == PathJoin(<<"submissions">>, ReSub(CompanyChars, company))

\* company_dir (Main.py); SUB_DIR / safe_name(company) (main.py)
company_dir(company) == PathJoin(<<"submissions">>, ReSub(CompanyChars, Strip(company)))

\* company_dir(company) / str(year) / quarter / f"month_{month_in_q}"
build_period_path(company, year, quarter, month_in_q) ==
    company_dir(company) \o <<year, quarter, <<"month_", month_in_q>>>>

(***************************************************************************)
(* Artifacts.  datetime.utcnow().strftime("%Y%m%dT%H%M%SZ") has second     *)
(* precision: the token is the pair (minutes, seconds) of the clock.  A    *)
(* payload is a dict, a sequence of (name, value) items with distinct      *)
(* names; a JSON object is the sequence of its (key, value) members.       *)
(***************************************************************************)
SecondsPerMinute == 60

StrftimeMinutes(t) == <<t \div SecondsPerMinute, 0>>

Strftime(t) == <<t \div SecondsPerMinute, t % SecondsPerMinute>>

File(path, content) == [path |-> path, content |-> content]

\* open(path, "w"): creates the file or replaces its content
WriteFile(files, f) == {g \in files : g.path # f.path} \cup {f}

RECURSIVE WriteAll(_, _)
WriteAll(files, fseq) ==
    IF fseq = <<>> THEN files ELSE WriteAll(WriteFile(files, Head(fseq)), Tail(fseq))

CsvRows(payload) ==
    [i \in 1..Len(payload) |-> [metric |-> payload[i][1], value |-> payload[i][2]]]

\* the files save_submission writes, in the order it writes them
save_submission(v, company, user, year, quarter, month_in_q, payload, t) ==
    LET p == build_period_path(company, year, quarter, month_in_q)
        ts == Strftime(t)
    IN  IF v = "Main"
        THEN LET meta == [company |-> company, user |-> user, year |-> year,
                          quarter |-> quarter, month_in_q |-> month_in_q,
                          submitted_at_utc |-> ts, schema_version |-> "mvp-1"]
             IN  << File(Append(p, <<"submission_", ts, ".json">>),
                         <<"json", << <<"meta", meta>>, <<"metrics", payload>> >> >>),
                    File(Append(p, <<"submission_", ts, ".csv">>),
                         <<"csv", CsvRows(payload)>>) >>
        ELSE LET meta == [company |-> company, username |-> user, year |-> year,
                          quarter |-> quarter, month_in_q |-> month_in_q,
                          submitted_at_utc |-> ts, schema_version |-> "mvp-1"]
             IN  << File(Append(p, <<"submission_", ts, ".json">>),
                         <<"json", << <<"meta", meta>>, <<"data", payload>> >> >>) >>

\* the file save_raw_upload writes: f"{ts}__{filename}" under raw_uploads/
save_raw_upload(company, user, year, quarter, month_in_q, uploaded_file, t) ==
    LET dest_dir == PathJoin(<<"raw_uploads">>, ReSub(CompanyChars, Strip(company)))
                        \o <<year, quarter, <<"month_", month_in_q>>>>
        filename == ReSub(FileChars, uploaded_file.name)
    IN  << File(Append(dest_dir, <<Strftime(t), filename>>),
                <<"raw", uploaded_file.bytes>>) >>

(***************************************************************************)
(* The st.error messages of the three variants.                            *)
(***************************************************************************)
MsgWeak(v) ==
    IF v = "ui" THEN "Min 8 caracteres."
    ELSE "La contrasena debe tener al menos 8 caracteres."
MsgMismatch(v) ==
    IF v = "ui" THEN "No coinciden." ELSE "Las contrasenas no coinciden."
MsgLoginRequired == "Completa usuario y contrasena."
MsgNotFound == "Usuario no encontrado."
MsgWrong == "Contrasena incorrecta."
MsgRequired == "Empresa y usuario son obligatorios."
MsgDuplicate == "Ese usuario ya existe."

Variants == {"Main", "main", "ui"}
HasAdminPanel(v) == v \in {"Main", "main"}

(***************************************************************************)
(* The values typed into the forms.                                        *)
(***************************************************************************)
Bob == <<"b", "o", "b">>
Acme == <<"A", "c", "m", "e">>
Bit == <<"B", "i", "t">>
Pass == <<"p", "a", "s", "s", "w", "o", "r", "d">>
PassX == Pass \o <<"x">>
Short == <<"s", "e", "c", "r", "e", "t", "7">>

UsernameInputs == {Empty, <<" ">>, Bob, <<" ">> \o Bob, ADMIN, <<"N", "A">>}
CompanyInputs == {Empty, <<" ">>, Acme}
NewPasswords == {Short, Pass}
LoginPasswords == {Empty, Pass, PassX}
\* what is typed into "Repetir contrasena": the same password, or another one
RepeatInputs(p1) == {p1, PassX}

Called(op, user, pwd) == [op |-> op, user |-> user, pwd |-> pwd]

\* "auth" not in st.session_state
Anonymous == auth = <<>>

AppScreenAlways == TRUE

\* main(): login_screen when "auth" is not in st.session_state, else app_screen
AppScreenShown == ~Anonymous

\* st.session_state.get("auth", {}).get(field)
AuthGet(field) == IF Anonymous THEN Empty ELSE auth[1][field]
Identity(username, row) ==
    [username |-> username, role |-> row.role, company |-> row.company]

StoreVars == <<now, fs, written, pathIn, pathOut>>

\* the browser sessions that run the script concurrently, one thread each
Sessions == {"s1", "s2"}

\* a session between two script runs: st.session_state only, no DataFrame loaded
IdleRun(state) == [pc |-> "idle", auth |-> state, df |-> <<>>]
IdleRuns == [s \in Sessions |-> IdleRun(<<>>)]

(***************************************************************************)
(* login_screen / render_login.  Every script run of the login page starts *)
(* with the admin bootstrap and a load of the registry.                    *)
(***************************************************************************)
\* the page is opened or refreshed, no button pressed
OpenLogin ==
    /\ Anonymous
    /\ usersFile' = bootstrap_admin(usersFile)
    /\ stError' = ""
    /\ call' = Called("open", Empty, Empty)
    /\ UNCHANGED <<variant, auth, run, StoreVars>>

\* the outcome of the first-time form: <<error, users.csv>>
SetAdminPassword(v, f, p1, p2) ==
    LET df == load_users(f)
        idx == Min(AdminRows(df))
    IN  IF p1 = Empty \/ Len(p1) < MinPasswordLen THEN <<MsgWeak(v), f>>
        ELSE IF p1 # p2 THEN <<MsgMismatch(v), f>>
        ELSE <<"", bootstrap_admin(save_users(
                 [df EXCEPT ![idx].password_hash = _hash_password(v, p1, idx)]))>>

\* "Guardar contrasena admin", shown while the admin's password_hash is ""
GuardarContrasenaAdmin(p1, p2) ==
    /\ Anonymous
    /\ AdminPending(load_users(bootstrap_admin(usersFile)))
    /\ LET out == SetAdminPassword(variant, bootstrap_admin(usersFile), p1, p2)
       IN  /\ stError' = out[1]
           /\ usersFile' = out[2]
    /\ call' = Called("set_admin_password", ADMIN, p1)
    /\ UNCHANGED <<variant, auth, run, StoreVars>>

\* whether the stored hash lets the typed password in
PasswordAccepted(v, password, hashed) ==
    IF v = "Main"
    THEN hashed # Empty /\ _verify_password(v, password, hashed)
    ELSE _verify_password(v, password, hashed)

\* the outcome of "Ingresar": <<error, session state>>
Authenticate(v, df, username, password) ==
    LET i == FirstRow(df, username)
    IN  IF v # "ui" /\ (username = Empty \/ password = Empty)
        THEN <<MsgLoginRequired, <<>>>>
        ELSE IF i = 0 THEN <<MsgNotFound, <<>>>>
        ELSE IF ~PasswordAccepted(v, password, df[i].password_hash)
        THEN <<MsgWrong, <<>>>>
        ELSE <<"", <<Identity(username, df[i])>>>>

\* "Ingresar"
Ingresar(username, password) ==
    /\ Anonymous
    /\ usersFile' = bootstrap_admin(usersFile)
    /\ LET out == Authenticate(variant, load_users(bootstrap_admin(usersFile)),
                               username, password)
       IN  /\ stError' = out[1]
           /\ auth' = out[2]
    /\ call' = Called("login", username, password)
    /\ UNCHANGED <<variant, run, StoreVars>>

\* "Cerrar sesion": pops "auth" and reruns the script, which shows the login page
CerrarSesion ==
    /\ AppScreenShown
    /\ auth' = <<>>
    /\ usersFile' = bootstrap_admin(usersFile)
    /\ stError' = ""
    /\ call' = Called("logout", Empty, Empty)
    /\ UNCHANGED <<variant, run, StoreVars>>

(***************************************************************************)
(* admin_user_mgmt / admin_panel: "Crear usuario".                         *)
(***************************************************************************)
CreateErrorNoLengthCheck(v, df, company, username, p1, p2) ==
    IF company = Empty \/ username = Empty THEN MsgRequired
    ELSE IF p1 # p2 THEN MsgMismatch(v)
    ELSE IF UsernameExists(df, username) THEN MsgDuplicate
    ELSE ""

\* the first validation that fails, "" if none does
CreateError(v, df, company, username, p1, p2) ==
    IF company = Empty \/ username = Empty THEN MsgRequired
    ELSE IF v = "Main" /\ p1 # p2 THEN MsgMismatch(v)
    ELSE IF Len(p1) < MinPasswordLen THEN MsgWeak(v)
    ELSE IF p1 # p2 THEN MsgMismatch(v)
    ELSE IF UsernameExists(df, username) THEN MsgDuplicate
    ELSE ""

NewRow(v, company, username, p1, salt) ==
    [company |-> Strip(company), username |-> Strip(username),
     password_hash |-> _hash_password(v, p1, salt), role |-> CLIENT]

\* only the admin tab of an admin session renders admin_user_mgmt
AdminPanelShown == AppScreenShown /\ AuthGet("role") = ADMIN /\ HasAdminPanel(variant)

CrearUsuario(company, username, p1, p2) ==
    /\ AdminPanelShown
    /\ LET df == load_users(usersFile)
           err == CreateError(variant, df, company, username, p1, p2)
       IN  /\ stError' = err
           /\ IF err # "" THEN usersFile' = FileAfterLoad(usersFile)
              ELSE /\ Len(df) < MaxUsers
                   /\ usersFile' =
                        save_users(Append(df, NewRow(variant, company, username, p1,
                                                     Len(df) + 1)))
    /\ call' = Called("create", username, p1)
    /\ UNCHANGED <<variant, auth, run, StoreVars>>

(***************************************************************************)
(* The credential store and the session, from a fresh registry.            *)
(***************************************************************************)
InitSession ==
    /\ auth = <<>>
    /\ stError = ""
    /\ call = Called("start", Empty, Empty)
    /\ now = ClockStart
    /\ fs = {}
    /\ written = <<>>
    /\ pathIn = <<>>
    /\ pathOut = <<>>
    /\ run = IdleRuns

Init ==
    /\ variant \in Variants
    /\ usersFile \in {NoFile, save_users(<<>>)}
    /\ InitSession

Login == \E u \in UsernameInputs, p \in LoginPasswords : Ingresar(u, p)
SetPassword ==
    \E p1 \in NewPasswords : \E p2 \in RepeatInputs(p1) : GuardarContrasenaAdmin(p1, p2)
CreateClientUser ==
    \E c \in CompanyInputs, u \in UsernameInputs, p1 \in NewPasswords :
        \E p2 \in RepeatInputs(p1) : CrearUsuario(c, u, p1, p2)

Next ==
    \/ OpenLogin
    \/ SetPassword
    \/ Login
    \/ CerrarSesion
    \/ CreateClientUser

Spec == Init /\ [][Next]_vars

(***************************************************************************)
(* The submission store, called directly.                                  *)
(***************************************************************************)
Tick ==
    /\ now < ClockStart + MaxClock
    /\ now' = now + 1
    /\ UNCHANGED <<variant, usersFile, auth, stError, call, fs, written, pathIn, pathOut, run>>

Period(year, quarter, month_in_q) ==
    [year |-> year, quarter |-> quarter, month_in_q |-> month_in_q]

\* a completed store call: the files are on disk and the call is logged
Stored(op, company, user, period, data, files) ==
    /\ Len(written) < MaxWrites
    /\ fs' = WriteAll(fs, files)
    /\ written' = Append(written,
            [op |-> op, at |-> now, company |-> company, user |-> user,
             period |-> period, data |-> data, files |-> files])

StoreSubmission(company, user, period, payload) ==
    Stored("save_submission", company, user, period, payload,
           save_submission(variant, company, user, period.year, period.quarter,
                           period.month_in_q, payload, now))

StoreRawUpload(company, user, period, uploaded_file) ==
    Stored("save_raw_upload", company, user, period, uploaded_file,
           save_raw_upload(company, user, period.year, period.quarter,
                           period.month_in_q, uploaded_file, now))

StoreCompanies == {Acme, <<"A", " ", "B">>, <<"A", "/", "B">>}
StorePeriods == {Period(2024, "Q1", 1), Period(2024, "Q1", 2)}
Payloads == {<<>>, << <<"Revenue", 1000>> >>, << <<"Revenue", 2000>>, <<"Churn", 5>> >>}
Uploads ==
    {[name |-> <<"r", ".", "x">>, bytes |-> <<1, 2>>],
     [name |-> <<"r", ".", "x">>, bytes |-> <<3>>],
     [name |-> <<"r", " ", "x">>, bytes |-> <<1, 2>>]}

CallSaveSubmission ==
    /\ HasAdminPanel(variant)
    /\ \E c \in StoreCompanies, per \in StorePeriods, payload \in Payloads :
            StoreSubmission(c, Bob, per, payload)
    /\ call' = Called("save_submission", Bob, Empty)
    /\ UNCHANGED <<variant, usersFile, auth, stError, now, pathIn, pathOut, run>>

CallSaveRawUpload ==
    /\ variant = "Main"
    /\ \E c \in StoreCompanies, per \in StorePeriods, up \in Uploads :
            StoreRawUpload(c, Bob, per, up)
    /\ call' = Called("save_raw_upload", Bob, Empty)
    /\ UNCHANGED <<variant, usersFile, auth, stError, now, pathIn, pathOut, run>>

InitStore ==
    /\ variant \in {"Main", "main"}
    /\ usersFile = NoFile
    /\ InitSession

NextStore == Tick \/ CallSaveSubmission \/ CallSaveRawUpload

SpecStore == InitStore /\ [][NextStore]_vars

(***************************************************************************)
(* build_period_path on bounded company strings.                           *)
(***************************************************************************)
PathAlphabet == {"a", "_", " ", "/"}

RECURSIVE StringsUpTo(_)
StringsUpTo(n) ==
    IF n = 0 THEN {Empty}
    ELSE LET shorter == StringsUpTo(n - 1)
         IN  shorter \cup {Append(t, ch) : t \in shorter, ch \in PathAlphabet}

InitPath ==
    /\ variant \in Variants
    /\ usersFile = NoFile
    /\ auth = <<>>
    /\ stError = ""
    /\ call = Called("start", Empty, Empty)
    /\ now = ClockStart
    /\ fs = {}
    /\ written = <<>>
    /\ pathIn \in {<<[company |-> c, period |-> per]>> :
                      c \in StringsUpTo(MaxLen), per \in StorePeriods}
    /\ pathOut = <<>>
    /\ run = IdleRuns

BuildPeriodPath ==
    /\ pathOut = <<>>
    /\ pathOut' = <<build_period_path(pathIn[1].company, pathIn[1].period.year,
                                      pathIn[1].period.quarter,
                                      pathIn[1].period.month_in_q)>>
    /\ call' = Called("build_period_path", Empty, Empty)
    /\ UNCHANGED <<variant, usersFile, auth, stError, now, fs, written, pathIn, run>>

NextPath == BuildPeriodPath

SpecPath == InitPath /\ [][NextPath]_vars

(***************************************************************************)
(* app_screen (Main.py) and portal_screen (main.py): the store as the      *)
(* session reaches it.  An admin picks the company among those of          *)
(* users.csv, every other role writes under the company of its identity.   *)
(***************************************************************************)
SinEmpresas(v) ==
    IF v = "Main"
    THEN <<"(", "s", "i", "n", " ", "e", "m", "p", "r", "e", "s", "a", "s", " ", "e", "n", " ",
           "u", "s", "e", "r", "s", ".", "c", "s", "v", ")">>
    ELSE <<"(", "s", "i", "n", " ", "e", "m", "p", "r", "e", "s", "a", "s", ")">>

\* the options of "Seleccionar empresa"
CompanyOptions(v, df) ==
    LET companies == {df[i].company : i \in 1..Len(df)} \ {Empty, ALL}
    IN  IF companies = {} THEN {SinEmpresas(v)} ELSE companies

SessionCompaniesAnyRole == CompanyOptions(variant, load_users(usersFile))

\* the companies the session can submit under
SessionCompanies ==
    IF AuthGet("role") = ADMIN
    THEN CompanyOptions(variant, load_users(usersFile))
    ELSE {AuthGet("company")}

MsgMissing == "No se pudo enviar: faltan metricas core obligatorias."

PortalPeriods == {Period(2024, "Q1", 1)}
CorePayloads == {<< <<"Revenue", 1000>> >>}
DummyPayloads == {<< <<"dummy", <<"o", "k">>>> >>}
PortalUploads == {[name |-> <<"r", ".", "x">>, bytes |-> <<1, 2>>]}

\* "Enviar metricas Core" (Main.py): rejected while a core metric is unchecked
EnviarMetricasCore ==
    /\ AppScreenShown
    /\ variant = "Main"
    /\ \/ /\ stError' = MsgMissing
          /\ call' = Called("core_form", AuthGet("username"), Empty)
          /\ UNCHANGED <<fs, written>>
       \/ /\ \E c \in SessionCompanies, per \in PortalPeriods, values \in CorePayloads :
                StoreSubmission(c, AuthGet("username"), per, values)
          /\ stError' = ""
          /\ call' = Called("save_submission", AuthGet("username"), Empty)
    /\ usersFile' = FileAfterLoad(usersFile)
    /\ UNCHANGED <<variant, auth, now, pathIn, pathOut, run>>

\* "Guardar (dummy)" (main.py)
GuardarDummy ==
    /\ AppScreenShown
    /\ variant = "main"
    /\ \E c \in SessionCompanies, per \in PortalPeriods, payload \in DummyPayloads :
            StoreSubmission(c, AuthGet("username"), per, payload)
    /\ stError' = ""
    /\ call' = Called("save_submission", AuthGet("username"), Empty)
    /\ usersFile' = FileAfterLoad(usersFile)
    /\ UNCHANGED <<variant, auth, now, pathIn, pathOut, run>>

\* "Guardar upload" (Main.py), shown once a file is chosen
GuardarUpload ==
    /\ AppScreenShown
    /\ variant = "Main"
    /\ \E c \in SessionCompanies, per \in PortalPeriods, up \in PortalUploads :
            StoreRawUpload(c, AuthGet("username"), per, up)
    /\ stError' = ""
    /\ call' = Called("save_raw_upload", AuthGet("username"), Empty)
    /\ usersFile' = FileAfterLoad(usersFile)
    /\ UNCHANGED <<variant, auth, now, pathIn, pathOut, run>>

Al == <<"a", "l">>

\* a registry the credential store reaches: the admin with a password and, where
\* the variant can create one, a client
PortalUsers(v) ==
    save_users(<<[AdminRecord EXCEPT !.password_hash = _hash_password(v, Pass, 1)]>>
               \o (IF HasAdminPanel(v)
                   THEN <<[company |-> Acme, username |-> Bob,
                           password_hash |-> _hash_password(v, PassX, 2), role |-> CLIENT]>>
                   ELSE <<>>))

InitPortal ==
    /\ variant \in Variants
    /\ usersFile = PortalUsers(variant)
    /\ InitSession

PortalLogin == \E u \in {ADMIN, Bob, Al}, p \in {Pass, PassX} : Ingresar(u, p)
PortalCreate == \E c \in {Empty, Bit}, u \in {Al} : CrearUsuario(c, u, Pass, Pass)

NextPortal ==
    \/ OpenLogin
    \/ PortalLogin
    \/ CerrarSesion
    \/ PortalCreate
    \/ EnviarMetricasCore
    \/ GuardarDummy
    \/ GuardarUpload
    \/ Tick

SpecPortal == InitPortal /\ [][NextPortal]_vars

(***************************************************************************)
(* The same program started on a users.csv that already holds a client     *)
(* record: with no admin row (bootstrap_admin then adds one with an empty  *)
(* password_hash) or with an admin row whose password was never set.       *)
(***************************************************************************)
SeededClient(v) ==
    [company |-> Acme, username |-> Bob,
     password_hash |-> _hash_password(v, Pass, 0), role |-> CLIENT]

SeededFiles(v) ==
    {save_users(<<SeededClient(v)>>), save_users(<<AdminRecord, SeededClient(v)>>)}

InitSeeded ==
    /\ variant \in Variants
    /\ usersFile \in SeededFiles(variant)
    /\ InitSession

SpecSeeded == InitSeeded /\ [][Next]_vars

(***************************************************************************)
(* Two browser sessions on the same users.csv.  Streamlit runs the script  *)
(* of each session in a thread of its own and nothing in the code locks    *)
(* users.csv, so the script runs interleave between their file operations: *)
(* a load_users() (read_csv) and the save_users() (to_csv) that follows it *)
(* in the same script run are two steps.  Each read_csv and each to_csv is *)
(* taken to be atomic.  A bcrypt salt is the pair of the session and the   *)
(* row, which no other hash of the file has.                               *)
(***************************************************************************)
AtPc(s, pc) == run[s].pc = pc
Goto(s, pc, state, df) == run' = [run EXCEPT ![s] = [pc |-> pc, auth |-> state, df |-> df]]
EndRun(s, state) == run' = [run EXCEPT ![s] = IdleRun(state)]

RaceUnchanged == <<variant, auth, stError, call, StoreVars>>

\* main() of an anonymous session calls login_screen, whose bootstrap_admin
\* starts with df = load_users()
RaceBootstrapLoad(s) ==
    /\ AtPc(s, "idle")
    /\ run[s].auth = <<>>
    /\ usersFile' = FileAfterLoad(usersFile)
    /\ Goto(s, "bootstrap", <<>>, load_users(usersFile))
    /\ UNCHANGED RaceUnchanged

\* bootstrap_admin: if admin.empty, concat the admin row and save_users(df)
RaceBootstrapSave(s) ==
    /\ AtPc(s, "bootstrap")
    /\ usersFile' = IF AdminRows(run[s].df) = {}
                    THEN save_users(Append(run[s].df, AdminRecord))
                    ELSE usersFile
    /\ Goto(s, "login", <<>>, <<>>)
    /\ UNCHANGED RaceUnchanged

\* login_screen: df_users = load_users()
RaceLoginLoad(s) ==
    /\ AtPc(s, "login")
    /\ usersFile' = FileAfterLoad(usersFile)
    /\ Goto(s, "form", <<>>, load_users(usersFile))
    /\ UNCHANGED RaceUnchanged

\* "Guardar contrasena admin" of this script run: save_users(df_users), st.rerun()
RaceGuardarContrasenaAdmin(s, p1, p2) ==
    /\ AtPc(s, "form")
    /\ AdminPending(run[s].df)
    /\ LET df == run[s].df
           idx == Min(AdminRows(df))
       IN  IF p1 = Empty \/ Len(p1) < MinPasswordLen \/ p1 # p2
           THEN usersFile' = usersFile
           ELSE usersFile' = save_users(
                    [df EXCEPT ![idx].password_hash = _hash_password(variant, p1, <<s, idx>>)])
    /\ EndRun(s, <<>>)
    /\ UNCHANGED RaceUnchanged

\* "Ingresar" of this script run, against the df_users it loaded
RaceIngresar(s, username, password) ==
    /\ AtPc(s, "form")
    /\ EndRun(s, Authenticate(variant, run[s].df, username, password)[2])
    /\ UNCHANGED <<usersFile, RaceUnchanged>>

\* "Cerrar sesion"
RaceCerrarSesion(s) ==
    /\ AtPc(s, "idle")
    /\ run[s].auth # <<>>
    /\ EndRun(s, <<>>)
    /\ UNCHANGED <<usersFile, RaceUnchanged>>

\* the admin tab of an admin session: admin_user_mgmt starts with df = load_users()
RacePanelLoad(s) ==
    /\ AtPc(s, "idle")
    /\ run[s].auth # <<>>
    /\ run[s].auth[1].role = ADMIN
    /\ HasAdminPanel(variant)
    /\ usersFile' = FileAfterLoad(usersFile)
    /\ Goto(s, "panel", run[s].auth, load_users(usersFile))
    /\ UNCHANGED RaceUnchanged

RaceCrearUsuarioRowOnly(s, company, username, p1, p2) ==
    /\ AtPc(s, "panel")
    /\ LET df == run[s].df
       IN  IF CreateError(variant, df, company, username, p1, p2) # ""
           THEN usersFile' = usersFile
           ELSE /\ Len(df) < MaxUsers
                /\ usersFile' = save_users(
                        <<NewRow(variant, company, username, p1, <<s, Len(df) + 1>>)>>)
    /\ EndRun(s, run[s].auth)
    /\ UNCHANGED RaceUnchanged

\* "Crear usuario" of this script run: validations on df, concat, save_users(df)
RaceCrearUsuario(s, company, username, p1, p2) ==
    /\ AtPc(s, "panel")
    /\ LET df == run[s].df
       IN  IF CreateError(variant, df, company, username, p1, p2) # ""
           THEN usersFile' = usersFile
           ELSE /\ Len(df) < MaxUsers
                /\ usersFile' = save_users(Append(df,
                        NewRow(variant, company, username, p1, <<s, Len(df) + 1>>)))
    /\ EndRun(s, run[s].auth)
    /\ UNCHANGED RaceUnchanged

InitRace ==
    /\ variant \in Variants
    /\ usersFile = NoFile
    /\ InitSession

RaceClients == {<<Acme, Bob>>, <<Bit, Al>>}

RaceLogin == \E s \in Sessions, u \in {ADMIN, Bob} : RaceIngresar(s, u, Pass)
RaceSetPassword ==
    \E s \in Sessions, p1 \in NewPasswords : RaceGuardarContrasenaAdmin(s, p1, p1)
RaceCreate ==
    \E s \in Sessions, c \in RaceClients, p1 \in NewPasswords :
        RaceCrearUsuario(s, c[1], c[2], p1, p1)

NextRace ==
    \/ \E s \in Sessions : RaceBootstrapLoad(s)
    \/ \E s \in Sessions : RaceBootstrapSave(s)
    \/ \E s \in Sessions : RaceLoginLoad(s)
    \/ RaceSetPassword
    \/ RaceLogin
    \/ \E s \in Sessions : RaceCerrarSesion(s)
    \/ \E s \in Sessions : RacePanelLoad(s)
    \/ RaceCreate

SpecRace == InitRace /\ [][NextRace]_vars

(***************************************************************************)
(* Properties.                                                             *)
(***************************************************************************)
Registry == load_users(usersFile)
Started == call.op # "start"
AdminHash(df) == df[Min(AdminRows(df))].password_hash

\* C1: from a fresh registry, after every handler that has run the admin
\* bootstrap (any number of times, interleaved with set-admin-password and
\* create-client-user) the registry holds exactly one record with username
\* "admin" and role "admin"; directly after the first bootstrap call (a page
\* load or a login attempt on the fresh registry) the registry is that one
\* record, with company "ALL" and password_hash "".
C1_OneAdmin ==
    [][/\ Cardinality(AdminRows(load_users(usersFile'))) = 1
       /\ (call.op = "start" /\ call'.op \in {"open", "login"})
            => usersFile'.rows = <<AdminRecord>>]_vars

C1_Witness ==
    /\ call.op = "create"
    /\ stError = ""
    /\ Len(Registry) = MaxUsers
    /\ Cardinality(AdminRows(Registry)) = 1
    /\ AdminHash(Registry) # Empty

\* C2 (as claimed): no two records of the registry have the same username.
C2_UniqueUsernames ==
    \A i, j \in 1..Len(Registry) :
        i # j => Registry[i].username # Registry[j].username

\* C3 (as claimed): a create-client-user call with a password shorter than 8
\* characters always fails with the weak-password error.
C3_AlwaysWeakPassword ==
    (call.op = "create" /\ Len(call.pwd) < MinPasswordLen)
        => stError = MsgWeak(variant)

\* C3 (amended): a create-client-user call with a password shorter than 8
\* characters always fails and leaves users.csv and the session as they were;
\* the error is the weak-password one unless an earlier validation fails
\* first: the required-fields error (always so when the username is empty),
\* or, in Main.py only, the password-mismatch error.
C3_WeakPasswordRejected ==
    [][(call'.op = "create" /\ Len(call'.pwd) < MinPasswordLen)
        => /\ usersFile' = usersFile
           /\ auth' = auth
           /\ stError' \in {MsgRequired, MsgWeak(variant)}
                             \cup (IF variant = "Main" THEN {MsgMismatch(variant)} ELSE {})
           /\ call'.user = Empty => stError' = MsgRequired]_vars

C3_Witness ==
    /\ call.op = "create"
    /\ Len(call.pwd) < MinPasswordLen
    /\ stError = MsgWeak(variant)
    /\ Len(Registry) >= 2

\* the record a login attempt is checked against: the first with the typed username
LoginRow == FirstRow(Registry, call.user)
LoginFieldsMissing == variant # "ui" /\ (call.user = Empty \/ call.pwd = Empty)

PasswordOf(hashed) == hashed[Len(hashed)]

\* C5 (as claimed): for every record u whose password was set to p, a login
\* as u with p succeeds and yields the identity of u's record, and a login as
\* u with another password fails with the invalid-credentials outcome and
\* leaves the session anonymous.  (Stated for the attempts that fill in both
\* fields: Main.py and main.py answer an empty field before any lookup.)
C5_RoundTrip ==
    \A i \in 1..Len(Registry) :
        (call.op = "login" /\ call.user # Empty /\ call.pwd # Empty
            /\ call.user = Registry[i].username
            /\ Registry[i].password_hash # Empty)
        => IF call.pwd = PasswordOf(Registry[i].password_hash)
           THEN auth = <<Identity(Registry[i].username, Registry[i])>>
           ELSE Anonymous /\ stError = MsgWrong

\* C6 (as claimed): while the admin record's password_hash is empty no
\* session is authenticated.
C6_PendingBlocks ==
    (Started /\ AdminPending(Registry)) => Anonymous

Max(S) == CHOOSE x \in S : \A y \in S : y <= x
Range(f) == {f[i] : i \in DOMAIN f}

\* the company as the claim sanitizes it: every character outside the class
\* replaced by "_", every other character kept in place
CharwiseSanitized(s) ==
    [i \in 1..Len(s) |-> IF s[i] \in CompanyChars THEN s[i] ELSE "_"]

\* the company as the code sanitizes it, stated by position: of the company
\* without its leading and trailing whitespace, the characters of the class
\* stay and each maximal run of other characters leaves one "_"
RunwiseSanitized(s) ==
    LET inked == {i \in 1..Len(s) : s[i] \notin Whitespace}
        t == IF inked = {} THEN Empty ELSE SubSeq(s, Min(inked), Max(inked))
        kept == {i \in 1..Len(t) : t[i] \in CompanyChars \/ i = 1 \/ t[i - 1] \in CompanyChars}
        nth(k) == CHOOSE i \in kept : Cardinality({j \in kept : j <= i}) = k
    IN  [k \in 1..Cardinality(kept) |->
            IF t[nth(k)] \in CompanyChars THEN t[nth(k)] ELSE "_"]

PeriodSegments(per) == <<per.year, per.quarter, <<"month_", per.month_in_q>>>>

\* C8 (as claimed): the period path is [sanitized_company, year, quarter,
\* "month_" + month] under submissions/, where sanitized_company is the
\* company with each character outside [A-Za-z0-9_-] replaced by "_".
C8_CharwisePath ==
    pathOut # <<>>
        => pathOut[1] = PathJoin(<<"submissions">>, CharwiseSanitized(pathIn[1].company))
                            \o PeriodSegments(pathIn[1].period)

\* C8 (amended): the period path is [sanitized_company, year, quarter,
\* "month_" + month] under submissions/, where sanitized_company is the
\* company without its leading and trailing whitespace and with each maximal
\* run of characters outside [A-Za-z0-9_-] replaced by one "_" (no segment
\* at all when that is empty); it holds no character outside the class.
C8_RunwisePath ==
    pathOut # <<>>
        => LET safe == RunwiseSanitized(pathIn[1].company)
           IN  /\ pathOut[1] = PathJoin(<<"submissions">>, safe)
                                   \o PeriodSegments(pathIn[1].period)
               /\ \A i \in 1..Len(safe) : safe[i] \in CompanyChars
               /\ Len(pathOut[1]) = IF safe = Empty THEN 4 ELSE 5

C8_Witness ==
    /\ pathOut # <<>>
    /\ pathIn[1].company = <<" ", "/", "/">>
    /\ pathOut[1][2] = <<"_">>

\* the files of a logged call whose name is submission_<ts><ext>
Artifacts(e, ext) ==
    {f \in Range(e.files) :
        /\ SubSeq(f.path, 1, Len(f.path) - 1)
             = build_period_path(e.company, e.period.year, e.period.quarter,
                                 e.period.month_in_q)
        /\ f.path[Len(f.path)][1] = "submission_"
        /\ f.path[Len(f.path)][3] = ext}

JsonMembers(f, key) == {m \in Range(f.content[2]) : m[1] = key}

\* C9 (as claimed): every save-submission call has created, in the period
\* directory, exactly one .json and exactly one .csv artifact with the same
\* timestamp stem; the JSON holds the payload under "metrics" and the CSV one
\* (metric, value) row per payload entry; in every implementation.
C9_JsonAndCsv ==
    \A n \in 1..Len(written) :
        written[n].op = "save_submission"
        => LET e == written[n]
               jsons == Artifacts(e, ".json")
               csvs == Artifacts(e, ".csv")
           IN  /\ Cardinality(jsons) = 1
               /\ Cardinality(csvs) = 1
               /\ \A j \in jsons, c \in csvs :
                    /\ j.path[Len(j.path)][2] = c.path[Len(c.path)][2]
                    /\ JsonMembers(j, "metrics") = {<<"metrics", e.data>>}
                    /\ c.content = <<"csv", CsvRows(e.data)>>
                    /\ n = Len(written) => j \in fs /\ c \in fs

Submissions == {n \in 1..Len(written) : written[n].op = "save_submission"}
Paths(e) == {f.path : f \in Range(e.files)}

\* C10: when the save-submission calls made so far happened at pairwise
\* distinct seconds, no two of them wrote to the same path, and every artifact
\* any of them wrote is still on disk with the content it was written with.
C10_NeverOverwritten ==
    (\A m, n \in Submissions : m # n => written[m].at # written[n].at)
        => /\ \A m, n \in Submissions : m # n => Paths(written[m]) \cap Paths(written[n]) = {}
           /\ \A n \in Submissions : \A f \in Range(written[n].files) : f \in fs

C10_Witness ==
    /\ Len(written) = 2
    /\ variant = "Main"
    /\ written[1].op = "save_submission" /\ written[2].op = "save_submission"
    /\ written[1].company = written[2].company
    /\ written[1].period = written[2].period
    /\ written[1].data # written[2].data
    /\ written[1].at # written[2].at
    /\ Cardinality(fs) = 4

StoreOps == {"save_submission", "save_raw_upload", "create"}

\* C7: the last handler is a save-submission, save-raw-upload or
\* create-client-user call only in a session that holds an identity, and that
\* identity is the one a login against the registry gives: the username,
\* role and company of the first record with that username, whose password
\* is set.  After "Cerrar sesion" the session holds none until the next login.
C7_StoreNeedsLogin ==
    /\ call.op \in StoreOps
        => /\ ~Anonymous
           /\ LET i == FirstRow(Registry, auth[1].username)
              IN  /\ i # 0
                  /\ auth[1] = Identity(auth[1].username, Registry[i])
                  /\ Registry[i].password_hash # Empty
    /\ call.op = "logout" => Anonymous

C7_Witness ==
    /\ Len(written) = 2
    /\ written[1].user = ADMIN
    /\ written[2].user = Bob
    /\ call.op = "save_raw_upload"
    /\ ~Anonymous

RawUploads == {n \in 1..Len(written) : written[n].op = "save_raw_upload"}

\* C11 (as claimed): every save-raw-upload call stores its file under the
\* path {timestamp}__{sanitized_filename} of its period directory, a path no
\* earlier upload occupies, and the file of every upload made so far is still
\* on disk with exactly the bytes that were uploaded, at any clock values.
C11_RawNeverCollide ==
    /\ \A n \in RawUploads :
          LET e == written[n]
              f == e.files[1]
          IN  /\ Len(e.files) = 1
              /\ f.path[Len(f.path)] = <<Strftime(e.at), ReSub(FileChars, e.data.name)>>
              /\ f.content = <<"raw", e.data.bytes>>
    /\ \A m, n \in RawUploads : m < n => Paths(written[m]) \cap Paths(written[n]) = {}
    /\ \A n \in RawUploads : \A f \in Range(written[n].files) : f \in fs

\* C12 (as claimed): every record of the registry with role "client" has a
\* non-empty company and a non-empty username.
C12_ClientFieldsNonEmpty ==
    \A i \in 1..Len(Registry) :
        Registry[i].role = CLIENT
            => Registry[i].company # Empty /\ Registry[i].username # Empty

SameUser(r, q) == r.company = q.company /\ r.username = q.username /\ r.role = q.role

\* C13 (as claimed): with two sessions interleaving their loads and saves of
\* users.csv, no step removes a record the file holds (a bootstrapped admin
\* or a created client), and no step takes a record whose password_hash is
\* set back to an empty password_hash.
C13_NoLostUpdate ==
    [][\A i \in 1..Len(usersFile.rows) :
          \E j \in 1..Len(usersFile'.rows) :
              /\ SameUser(usersFile.rows[i], usersFile'.rows[j])
              /\ usersFile.rows[i].password_hash # Empty
                    => usersFile'.rows[j].password_hash # Empty]_vars

\* the session whose script run takes the step
Stepped(s) == run'[s] # run[s]

\* C13 (amended): users.csv has no concurrency control and the last writer
\* wins.  A save by a session persists the registry that session loaded plus
\* its own change: every record of the loaded registry is in the file after
\* the save, a password_hash set in it is still set, and at most one record
\* is added.  So a save removes or reverts only what other sessions persisted
\* between this session's load and its save (nothing when no other session
\* saved in between), and a step that saves nothing leaves the rows alone.
C13_LastWriterWins ==
    [][\A s \in Sessions :
          Stepped(s)
          => IF usersFile'.rows = usersFile.rows THEN TRUE
             ELSE LET df == run[s].df
                      rows == usersFile'.rows
                  IN  /\ run[s].pc \in {"bootstrap", "form", "panel"}
                      /\ Len(rows) \in {Len(df), Len(df) + 1}
                      /\ \A i \in 1..Len(df) :
                            /\ SameUser(df[i], rows[i])
                            /\ df[i].password_hash # Empty
                                  => rows[i].password_hash = df[i].password_hash]_vars

\* a session is logged in as bob although users.csv no longer holds bob: the
\* other session's "Crear usuario" saved the registry it had loaded before
\* bob was created, with its own new record added
C13_Witness ==
    \E s \in Sessions :
        /\ run[s].auth # <<>>
        /\ run[s].auth[1].username = Bob
        /\ ~UsernameExists(usersFile.rows, Bob)
        /\ UsernameExists(usersFile.rows, Al)
        /\ Cardinality(AdminRows(usersFile.rows)) = 1

\* C14: every step taken while the session holds an identity whose role is
\* not "admin" keeps that identity or logs out, is no create-client-user
\* call, and, when it is a save-submission or save-raw-upload call, stores
\* under the company of that identity, with its username as the actor.
C14_ClientConfined ==
    [][(~Anonymous /\ auth[1].role # ADMIN)
        => /\ auth' \in {auth, <<>>}
           /\ call'.op # "create"
           /\ usersFile'.rows = usersFile.rows
           /\ written' # written
                => /\ written' = Append(written, written'[Len(written')])
                   /\ written'[Len(written')].company = auth[1].company
                   /\ written'[Len(written')].user = auth[1].username]_vars

\* bob, a client of Acme, has stored a file while the registry holds another
\* company the admin could have chosen
C14_Witness ==
    /\ ~Anonymous
    /\ auth[1] = [username |-> Bob, role |-> CLIENT, company |-> Acme]
    /\ call.op \in {"save_submission", "save_raw_upload"}
    /\ written # <<>>
    /\ written[Len(written)].user = Bob
    /\ written[Len(written)].company = Acme
    /\ \E i \in 1..Len(Registry) : Registry[i].company = Bit

====
